---- MODULE Spec2Model ----
(***************************************************************************)
(* Model of the SH1106 command protocol engine: the Command encoder and   *)
(* its blocking / suspending send (src/src/command.rs), the Page         *)
(* conversion, and the interface Builder (src/src/builder.rs).            *)
(* Bytes are written in decimal; the hexadecimal value of the source is   *)
(* given in the comment next to each.                                     *)
(***************************************************************************)
EXTENDS Integers, Sequences, FiniteSets, TLC

\* ------------------------------------------------------------------------
\* u8 arithmetic as Rust computes it
\* ------------------------------------------------------------------------

\* the values of a u8
U8 == 0..255

\* a mask that is not applied
And8Unmasked(a, b) == b

RECURSIVE And8(_, _)
\* a & b on u8, bit by bit
And8(a, b) ==
    IF a = 0 \/ b = 0 THEN 0
    ELSE (a % 2) * (b % 2) + 2 * And8(a \div 2, b \div 2)

RECURSIVE Or8(_, _)
\* a | b on u8, bit by bit
Or8(a, b) ==
    IF a = 0 THEN b
    ELSE IF b = 0 THEN a
    ELSE (IF a % 2 = 1 \/ b % 2 = 1 THEN 1 ELSE 0) + 2 * Or8(a \div 2, b \div 2)

\* a << n on u8: bits shifted past bit 7 are discarded (no overflow check
\* applies to the value, only to a shift amount >= 8)
Shl8(a, n) == (a * (2 ^ n)) % 256

\* a >> n on u8
Shr8(a, n) == a \div (2 ^ n)

\* `b as u8` for a bool
BoolU8(b) == IF b THEN 1 ELSE 0

\* ------------------------------------------------------------------------
\* Parameter enumerations: variant |-> discriminant (`x as u8`)
\* ------------------------------------------------------------------------

Page ==
    [ Page0 |-> 0, Page1 |-> 1, Page2 |-> 2, Page3 |-> 3,
      Page4 |-> 4, Page5 |-> 5, Page6 |-> 6, Page7 |-> 7 ]

VcomhLevel ==
    [ V0430 |-> 0, V0436 |-> 1, V0442 |-> 2, V0449 |-> 3, V0455 |-> 4,
      V0462 |-> 5, V0468 |-> 6, V0474 |-> 7, V0481 |-> 8, V0487 |-> 9,
      V0494 |-> 10, V0500 |-> 11, V0506 |-> 12, V0513 |-> 13, V0519 |-> 14,
      V0526 |-> 15, V0532 |-> 16, V0539 |-> 17, V0545 |-> 18, V0551 |-> 19,
      V0558 |-> 20, V0564 |-> 21, V0571 |-> 22, V0577 |-> 23, V0583 |-> 24,
      V0590 |-> 25, V0596 |-> 26, V0603 |-> 27, V0609 |-> 28, V0616 |-> 29,
      V0622 |-> 30, V0628 |-> 31, V0635 |-> 32, V0641 |-> 33, V0648 |-> 34,
      V0654 |-> 35, V0660 |-> 36, V0667 |-> 37, V0673 |-> 38, V0680 |-> 39,
      V0686 |-> 40, V0693 |-> 41, V0699 |-> 42, V0705 |-> 43, V0712 |-> 44,
      V0718 |-> 45, V0725 |-> 46, V0731 |-> 47, V0737 |-> 48, V0744 |-> 49,
      V0750 |-> 50, V0757 |-> 51, V0763 |-> 52, V0769 |-> 53, V0776 |-> 54,
      V0782 |-> 55, V0789 |-> 56, V0795 |-> 57, V0802 |-> 58, V0808 |-> 59,
      V0814 |-> 60, V0821 |-> 61, V0827 |-> 62, V0834 |-> 63, V1000 |-> 64 ]

PumpVoltage == [ V64 |-> 0, V74 |-> 1, V80 |-> 2, V90 |-> 3 ]

\* ------------------------------------------------------------------------
\* Command values
\* ------------------------------------------------------------------------

U8Tags ==
    {"Contrast", "LowerColStart", "UpperColStart", "ColStart", "StartLine",
     "Multiplex", "DisplayOffset"}

BoolTags ==
    {"AllOn", "Invert", "DisplayOn", "SegmentRemap", "ReverseComDir",
     "ComPinConfig", "ChargePump"}

PairTags == {"DisplayClockDiv", "PreChargePeriod"}

UnitTags == {"Noop", "ReadModifyWriteStart", "ReadModifyWriteEnd"}

\* every value of the Command enum
Command ==
    [tag : U8Tags, val : U8]
    \cup [tag : BoolTags, on : BOOLEAN]
    \cup [tag : {"PageStart"}, page : DOMAIN Page]
    \cup [tag : PairTags, p1 : U8, p2 : U8]
    \cup [tag : {"VcomhDeselect"}, level : DOMAIN VcomhLevel]
    \cup [tag : {"SetPumpVoltage"}, voltage : DOMAIN PumpVoltage]
    \cup [tag : UnitTags]

\* ------------------------------------------------------------------------
\* The encoder: the byte buffer each arm of Command::send builds
\* ------------------------------------------------------------------------

\* DisplayClockDiv's register byte: fosc in the high nibble, div in the low
ClockDivByte(fosc, div) ==
    Or8(Shl8(And8(15, fosc), 4), And8(15, div))

\* a packing with phase1 in the high nibble, as DisplayClockDiv packs its first
\* parameter
PreChargeByteSwapped(phase1, phase2) ==
    Or8(Shl8(And8(15, phase1), 4), And8(15, phase2))

\* PreChargePeriod's register byte: phase2 in the high nibble, phase1 in the low
PreChargeByte(phase1, phase2) ==
    Or8(Shl8(And8(15, phase2), 4), And8(15, phase1))

Encode(self) ==
    CASE self.tag = "Contrast"      -> <<129, self.val>>                         \* 0x81
      [] self.tag = "AllOn"         -> <<Or8(164, BoolU8(self.on))>>             \* 0xA4
      [] self.tag = "Invert"        -> <<Or8(166, BoolU8(self.on))>>             \* 0xA6
      [] self.tag = "DisplayOn"     -> <<Or8(174, BoolU8(self.on))>>             \* 0xAE
      [] self.tag = "LowerColStart" -> <<And8(15, self.val)>>                    \* 0xF
      [] self.tag = "UpperColStart" -> <<Or8(16, And8(15, self.val))>>           \* 0x10
      [] self.tag = "ColStart"      ->
            <<And8(15, self.val), Or8(16, And8(15, Shr8(self.val, 4)))>>
      [] self.tag = "PageStart"     -> <<Or8(176, Page[self.page])>>             \* 0xB0
      [] self.tag = "StartLine"     -> <<Or8(64, And8(63, self.val))>>           \* 0x40, 0x3F
      [] self.tag = "SegmentRemap"  -> <<Or8(160, BoolU8(self.on))>>             \* 0xA0
      [] self.tag = "Multiplex"     -> <<168, self.val>>                         \* 0xA8
      [] self.tag = "ReverseComDir" -> <<Or8(192, Shl8(BoolU8(self.on), 3))>>    \* 0xC0
      [] self.tag = "DisplayOffset" -> <<211, self.val>>                         \* 0xD3
      [] self.tag = "ComPinConfig"  -> <<218, Or8(2, Shl8(BoolU8(self.on), 4))>> \* 0xDA
      [] self.tag = "DisplayClockDiv" ->
            <<213, ClockDivByte(self.p1, self.p2)>>                              \* 0xD5
      [] self.tag = "PreChargePeriod" ->
            <<217, PreChargeByte(self.p1, self.p2)>>                             \* 0xD9
      [] self.tag = "VcomhDeselect" -> <<219, Shl8(VcomhLevel[self.level], 4)>>  \* 0xDB
      [] self.tag = "Noop"          -> <<227>>                                   \* 0xE3
      [] self.tag = "ChargePump"    -> <<173, Or8(138, BoolU8(self.on))>>        \* 0xAD, 0x8A
      [] self.tag = "SetPumpVoltage" -> <<Or8(48, PumpVoltage[self.voltage])>>   \* 0x30
      [] self.tag = "ReadModifyWriteStart" -> <<224>>                            \* 0xE0
      [] self.tag = "ReadModifyWriteEnd"   -> <<238>>                            \* 0xEE

\* ------------------------------------------------------------------------
\* The sink (display_interface's WriteOnlyDataCommand), as a recording fake:
\* it logs each call and reports the outcome the test scripted for it
\* ------------------------------------------------------------------------

\* the results a send can return: Ok(()) or Err(DisplayError)
Outcomes == {"Ok", "Err(BusWriteError)", "Err(DCError)"}

\* DataFormat::U8(data)
U8Fmt(data) == [fmt |-> "U8", data |-> data]

\* iface.send_commands(buf): one call on the sink
IfaceSendCommands(iface, buf, outcome) ==
    [iface |-> Append(iface, [kind |-> "send_commands", fmt |-> buf.fmt, data |-> buf.data]),
     ret   |-> outcome]

\* a send_commands that appends the bytes to the previous call's buffer
send_commands_coalescing(iface, data, outcome) ==
    IF iface = <<>>
    THEN IfaceSendCommands(iface, U8Fmt(data), outcome)
    ELSE [iface |-> [iface EXCEPT ![Len(iface)].data = @ \o data], ret |-> outcome]

\* a send_commands that discards the sink's result
send_commands_swallowing(iface, data, outcome) ==
    [iface |-> IfaceSendCommands(iface, U8Fmt(data), outcome).iface, ret |-> "Ok"]

\* Command::send_commands, blocking instance
send_commands(iface, data, outcome) ==
    IfaceSendCommands(iface, U8Fmt(data), outcome)

\* Command::send, blocking instance
send(self, iface, outcome) ==
    send_commands(iface, Encode(self), outcome)

RECURSIVE send_commands_bytewise(_, _, _)
\* a send_commands that awaits the sink once per byte
send_commands_bytewise(iface, data, outcome) ==
    IF Len(data) <= 1
    THEN IfaceSendCommands(iface, U8Fmt(data), outcome)
    ELSE send_commands_bytewise(
             IfaceSendCommands(iface, U8Fmt(<<Head(data)>>), outcome).iface,
             Tail(data), outcome)

\* Command::send_commands, async instance: the buffer is handed to the sink
\* in the one call whose future is awaited
send_commands_async(iface, data, outcome) ==
    IfaceSendCommands(iface, U8Fmt(data), outcome)

\* Command::send, async instance (generated from the same arms)
send_async(self, iface, outcome) ==
    send_commands_async(iface, Encode(self), outcome)

\* ------------------------------------------------------------------------
\* Page::from(row)
\* ------------------------------------------------------------------------

\* a conversion by remainder instead of quotient
Page_from_rem(val) ==
    LET q == val % 8
    IN  CHOOSE p \in DOMAIN Page : Page[p] = q

\* a conversion that clamps rows past the last page
Page_from_clamped(val) ==
    LET q == IF val \div 8 > 7 THEN 7 ELSE val \div 8
    IN  CHOOSE p \in DOMAIN Page : Page[p] = q

\* impl From<u8> for Page: "panic" stands for the unreachable!() arm
Page_from(val) ==
    LET q == val \div 8
    IN  CASE q = 0 -> "Page0"
          [] q = 1 -> "Page1"
          [] q = 2 -> "Page2"
          [] q = 3 -> "Page3"
          [] q = 4 -> "Page4"
          [] q = 5 -> "Page5"
          [] q = 6 -> "Page6"
          [] q = 7 -> "Page7"
          [] OTHER -> "panic"

\* ------------------------------------------------------------------------
\* Builder
\* ------------------------------------------------------------------------

\* the logical display geometries
DisplaySize == {"Display128x64", "Display132x64", "Display72x40"}

\* the driver handle the connect calls defer to
SSD1306_new(iface, display_size) ==
    [iface |-> iface, display_size |-> display_size]

I2cInterface_new(i2c) == [kind |-> "I2cInterface", bus |-> <<i2c>>]

SpiInterface_new(spi, dc) == [kind |-> "SpiInterface", bus |-> <<spi, dc>>]

\* Builder::new()
Builder_new == [display_size |-> "Display128x64"]

\* a with_size that returns a copy of the receiver
with_size_copy(self, display_size) == self

\* Builder::with_size(&self, display_size)
with_size(self, display_size) == [display_size |-> display_size]

\* a connect_i2c that binds the default geometry
connect_i2c_default(self, i2c) ==
    SSD1306_new(I2cInterface_new(i2c), Builder_new.display_size)

\* Builder::connect_i2c(&self, i2c)
connect_i2c(self, i2c) ==
    SSD1306_new(I2cInterface_new(i2c), self.display_size)

\* Builder::connect_spi(&self, spi, dc)
connect_spi(self, spi, dc) ==
    SSD1306_new(SpiInterface_new(spi, dc), self.display_size)

\* ------------------------------------------------------------------------
\* State
\* ------------------------------------------------------------------------

VARIABLES
    script,     \* the test input: the commands to send and what the sink reports for each
    log,        \* calls received by the blocking sink
    results,    \* what each blocking send returned
    alog,       \* calls received by the async sink
    aresults,   \* what each async send returned
    apc,        \* the async caller: "idle" or "awaiting" the sink's future
    inflight,   \* the outcome the awaited sink future will resolve to
    row,        \* the argument of Page::from
    page,       \* the result of Page::from: "unset", a Page, or "panic"
    builders,   \* the Builder values the caller holds
    origin,     \* history: per builder, the with_size arguments applied since new()
    uses,       \* history: per builder, "fresh" (never connected), "connected" (a
                \* connect call was its last use) or "reused" (called again after)
    handles,    \* the driver handles returned by the connect calls
    connected   \* history: per handle, the builder it was connected from

sinkVars == <<script, log, results, alog, aresults, apc, inflight>>

pageVars == <<row, page>>

builderVars == <<builders, origin, uses, handles, connected>>

vars == <<sinkVars, pageVars, builderVars>>

\* longest command sequence sent to one sink
MaxSends == 2

\* most Builder values held at once
MaxBuilders == 4

\* most driver handles created
MaxHandles == 2

\* commands used in sequences
SampleCommands ==
    { [tag |-> "Contrast", val |-> 66],
      [tag |-> "ColStart", val |-> 26],
      [tag |-> "DisplayClockDiv", p1 |-> 5, p2 |-> 0],
      [tag |-> "ReadModifyWriteStart"],
      [tag |-> "ReadModifyWriteEnd"] }

Step(cmds) == [cmd : cmds, outcome : Outcomes]

RECURSIVE SeqsUpTo(_, _)
SeqsUpTo(S, n) ==
    IF n = 0 THEN {<<>>}
    ELSE LET shorter == SeqsUpTo(S, n - 1)
         IN  shorter \cup {Append(q, x) : q \in {t \in shorter : Len(t) = n - 1}, x \in S}

SinksInit ==
    /\ log = <<>>
    /\ results = <<>>
    /\ alog = <<>>
    /\ aresults = <<>>
    /\ apc = "idle"
    /\ inflight = "none"

PageIdle ==
    /\ row = 0
    /\ page = "unset"

BuilderIdle ==
    /\ builders = <<>>
    /\ origin = <<>>
    /\ uses = <<>>
    /\ handles = <<>>
    /\ connected = <<>>

\* ------------------------------------------------------------------------
\* Sending
\* ------------------------------------------------------------------------

\* cmd.send(&mut iface), blocking: runs to completion
BlockingSend ==
    /\ Len(results) < Len(script)
    /\ LET s == script[Len(results) + 1]
           r == send(s.cmd, log, s.outcome)
       IN  /\ log' = r.iface
           /\ results' = Append(results, r.ret)
    /\ UNCHANGED <<script, alog, aresults, apc, inflight, pageVars, builderVars>>

\* cmd.send(&mut iface).await, first poll: runs up to the sink's future
AsyncSendPoll ==
    /\ apc = "idle"
    /\ Len(aresults) < Len(script)
    /\ LET s == script[Len(aresults) + 1]
           r == send_async(s.cmd, alog, s.outcome)
       IN  /\ alog' = r.iface
           /\ inflight' = r.ret
    /\ apc' = "awaiting"
    /\ UNCHANGED <<script, log, results, aresults, pageVars, builderVars>>

\* the sink's future resolves: send returns its output
AsyncSendResume ==
    /\ apc = "awaiting"
    /\ aresults' = Append(aresults, inflight)
    /\ inflight' = "none"
    /\ apc' = "idle"
    /\ UNCHANGED <<script, log, results, alog, pageVars, builderVars>>

\* sequences of sends, blocking and async, on the same script
Init ==
    /\ script \in SeqsUpTo(Step(SampleCommands), MaxSends)
    /\ SinksInit
    /\ PageIdle
    /\ BuilderIdle

Next == BlockingSend \/ AsyncSendPoll \/ AsyncSendResume

Spec == Init /\ [][Next]_vars

\* one blocking send of any Command value
InitEnc ==
    /\ script \in {<<s>> : s \in Step(Command)}
    /\ SinksInit
    /\ PageIdle
    /\ BuilderIdle

NextEnc == BlockingSend

SpecEnc == InitEnc /\ [][NextEnc]_vars

\* the same script through the blocking and the async instance: every single
\* Command value, and the sampled sequences
InitDiff ==
    /\ script \in SeqsUpTo(Step(SampleCommands), MaxSends) \cup {<<s>> : s \in Step(Command)}
    /\ SinksInit
    /\ PageIdle
    /\ BuilderIdle

NextDiff == BlockingSend \/ AsyncSendPoll \/ AsyncSendResume

SpecDiff == InitDiff /\ [][NextDiff]_vars

\* ------------------------------------------------------------------------
\* Row to page, then PageStart
\* ------------------------------------------------------------------------

\* let page = Page::from(row)
PageFromRow ==
    /\ page = "unset"
    /\ page' = Page_from(row)
    /\ UNCHANGED <<row, sinkVars, builderVars>>

\* Command::PageStart(page).send(&mut iface), once Page::from has returned
SendPageStart ==
    /\ page \in DOMAIN Page
    /\ script = <<>>
    /\ \E o \in Outcomes :
          LET c == [tag |-> "PageStart", page |-> page]
              r == send(c, log, o)
          IN  /\ script' = <<[cmd |-> c, outcome |-> o]>>
              /\ log' = r.iface
              /\ results' = Append(results, r.ret)
    /\ UNCHANGED <<alog, aresults, apc, inflight, pageVars, builderVars>>

InitPage ==
    /\ row \in U8
    /\ page = "unset"
    /\ script = <<>>
    /\ SinksInit
    /\ BuilderIdle

NextPage == PageFromRow \/ SendPageStart

SpecPage == InitPage /\ [][NextPage]_vars

\* ------------------------------------------------------------------------
\* Building driver handles
\* ------------------------------------------------------------------------

\* the use history of a builder after one more call on it
AfterCall(use, method) ==
    IF use # "fresh" THEN "reused"
    ELSE IF method \in {"connect_i2c", "connect_spi"} THEN "connected"
    ELSE "fresh"

\* let b = Builder::new()
New ==
    /\ Len(builders) < MaxBuilders
    /\ builders' = Append(builders, Builder_new)
    /\ origin' = Append(origin, <<>>)
    /\ uses' = Append(uses, "fresh")
    /\ UNCHANGED <<handles, connected, sinkVars, pageVars>>

\* let b2 = builders[i].with_size(g)
WithSize(i, g) ==
    /\ Len(builders) < MaxBuilders
    /\ builders' = Append(builders, with_size(builders[i], g))
    /\ origin' = Append(origin, Append(origin[i], g))
    /\ uses' = Append([uses EXCEPT ![i] = AfterCall(@, "with_size")], "fresh")
    /\ UNCHANGED <<handles, connected, sinkVars, pageVars>>

\* let d = builders[i].connect_i2c(i2c)
ConnectI2c(i) ==
    /\ Len(handles) < MaxHandles
    /\ handles' = Append(handles, connect_i2c(builders[i], "i2c"))
    /\ connected' = Append(connected, i)
    /\ uses' = [uses EXCEPT ![i] = AfterCall(@, "connect_i2c")]
    /\ UNCHANGED <<builders, origin, sinkVars, pageVars>>

\* let d = builders[i].connect_spi(spi, dc)
ConnectSpi(i) ==
    /\ Len(handles) < MaxHandles
    /\ handles' = Append(handles, connect_spi(builders[i], "spi", "dc"))
    /\ connected' = Append(connected, i)
    /\ uses' = [uses EXCEPT ![i] = AfterCall(@, "connect_spi")]
    /\ UNCHANGED <<builders, origin, sinkVars, pageVars>>

InitBuilder ==
    /\ BuilderIdle
    /\ script = <<>>
    /\ SinksInit
    /\ PageIdle

NextBuilder ==
    \/ New
    \/ \E i \in 1..Len(builders), g \in DisplaySize : WithSize(i, g)
    \/ \E i \in 1..Len(builders) : ConnectI2c(i)
    \/ \E i \in 1..Len(builders) : ConnectSpi(i)

SpecBuilder == InitBuilder /\ [][NextBuilder]_vars

\* ------------------------------------------------------------------------
\* Properties
\* ------------------------------------------------------------------------

Min(a, b) == IF a <= b THEN a ELSE b

\* one sink call carrying command bytes `data`
CommandCall(data) == [kind |-> "send_commands", fmt |-> "U8", data |-> data]

\* the opcode table of the specification (section 4.1), in plain arithmetic:
\* a field of width w is x % 2^w, a field at bit k is multiplied by 2^k, and
\* the byte is the 8-bit value of the sum of its fields
Table(c) ==
    CASE c.tag = "Contrast"        -> <<129, c.val>>
      [] c.tag = "AllOn"           -> <<164 + BoolU8(c.on)>>
      [] c.tag = "Invert"          -> <<166 + BoolU8(c.on)>>
      [] c.tag = "DisplayOn"       -> <<174 + BoolU8(c.on)>>
      [] c.tag = "LowerColStart"   -> <<c.val % 16>>
      [] c.tag = "UpperColStart"   -> <<16 + (c.val % 16)>>
      [] c.tag = "ColStart"        -> <<c.val % 16, 16 + ((c.val \div 16) % 16)>>
      [] c.tag = "PageStart"       -> <<176 + Page[c.page]>>
      [] c.tag = "StartLine"       -> <<64 + (c.val % 64)>>
      [] c.tag = "SegmentRemap"    -> <<160 + BoolU8(c.on)>>
      [] c.tag = "Multiplex"       -> <<168, c.val>>
      [] c.tag = "ReverseComDir"   -> <<192 + (8 * BoolU8(c.on))>>
      [] c.tag = "DisplayOffset"   -> <<211, c.val>>
      [] c.tag = "ComPinConfig"    -> <<218, 2 + (16 * BoolU8(c.on))>>
      [] c.tag = "DisplayClockDiv" -> <<213, ((c.p1 % 16) * 16) + (c.p2 % 16)>>
      [] c.tag = "PreChargePeriod" -> <<217, ((c.p2 % 16) * 16) + (c.p1 % 16)>>
      [] c.tag = "VcomhDeselect"   -> <<219, (VcomhLevel[c.level] * 16) % 256>>
      [] c.tag = "Noop"            -> <<227>>
      [] c.tag = "ChargePump"      -> <<173, 138 + BoolU8(c.on)>>
      [] c.tag = "SetPumpVoltage"  -> <<48 + PumpVoltage[c.voltage]>>
      [] c.tag = "ReadModifyWriteStart" -> <<224>>
      [] c.tag = "ReadModifyWriteEnd"   -> <<238>>

C2_VcomhOrdinalPreserved ==
    (Len(log) = 1 /\ script[1].cmd.tag = "VcomhDeselect") =>
        /\ Len(log[1].data) = 2
        /\ log[1].data[1] = 219
        /\ log[1].data[2] \div 16 = VcomhLevel[script[1].cmd.level]
        /\ \A other \in DOMAIN VcomhLevel :
              other # script[1].cmd.level =>
                 Encode([tag |-> "VcomhDeselect", level |-> other])[2] # log[1].data[2]

\* the PreChargePeriod command with its two arguments exchanged
Swapped(c) == [tag |-> "PreChargePeriod", p1 |-> c.p2, p2 |-> c.p1]

ValidPhase == 1..15

\* C4 as stated: PreChargePeriod(p1, p2) emits [0xD9, ((p2 & 0xF) << 4) |
\* (p1 & 0xF)], and for all valid p1, p2 (each in 1..15) exchanging the
\* arguments changes the emitted second byte.
C4_SwapAlwaysDiffers ==
    (Len(log) = 1 /\ script[1].cmd.tag = "PreChargePeriod") =>
        LET c == script[1].cmd
        IN  /\ log[1].data = <<217, ((c.p2 % 16) * 16) + (c.p1 % 16)>>
            /\ (c.p1 \in ValidPhase /\ c.p2 \in ValidPhase) =>
                  send(Swapped(c), <<>>, "Ok").iface[1].data[2] # log[1].data[2]

\* C4 amended: PreChargePeriod(p1, p2) emits [0xD9, ((p2 & 0xF) << 4) |
\* (p1 & 0xF)] for all u8 p1, p2, and for all valid p1, p2 (each in 1..15)
\* that differ, exchanging the arguments changes the emitted second byte;
\* with p1 = p2 the two sends emit the same bytes.
C4_SwapDiffersWhenDistinct ==
    (Len(log) = 1 /\ script[1].cmd.tag = "PreChargePeriod") =>
        LET c == script[1].cmd
            swappedByte == send(Swapped(c), <<>>, "Ok").iface[1].data[2]
        IN  /\ log[1].data = <<217, ((c.p2 % 16) * 16) + (c.p1 % 16)>>
            /\ (c.p1 \in ValidPhase /\ c.p2 \in ValidPhase /\ c.p1 # c.p2) =>
                  swappedByte # log[1].data[2]
            /\ c.p1 = c.p2 => swappedByte = log[1].data[2]

\* PreChargePeriod(2, 5) has been sent and emitted [0xD9, 0x52]
C4_Witness ==
    /\ Len(log) = 1
    /\ script[1].cmd.tag = "PreChargePeriod"
    /\ script[1].cmd.p1 = 2
    /\ script[1].cmd.p2 = 5
    /\ log[1].data = <<217, 82>>

\* the i-th call of a sink log is the one-byte call of the i-th command, when
\* that command is a Read-Modify-Write boundary
RmwCallsInPlace(sink) ==
    \A i \in 1..Len(sink) :
        /\ script[i].cmd.tag = "ReadModifyWriteStart" => sink[i] = CommandCall(<<224>>)
        /\ script[i].cmd.tag = "ReadModifyWriteEnd" => sink[i] = CommandCall(<<238>>)

\* C5: in any sequence of sends each ReadModifyWriteStart / ReadModifyWriteEnd
\* send produces its own sink call of exactly one opcode byte ([0xE0], [0xEE]),
\* at its own position in the sink log: the calls are never reordered, merged
\* with a neighbour's bytes, or dropped; Start then End gives two calls.
C5_RmwSeparateCalls ==
    /\ Len(log) = Len(results)
    /\ RmwCallsInPlace(log)
    /\ RmwCallsInPlace(alog)

\* ReadModifyWriteStart then ReadModifyWriteEnd have been sent: two calls
C5_Witness ==
    /\ Len(results) = 2
    /\ script[1].cmd.tag = "ReadModifyWriteStart"
    /\ script[2].cmd.tag = "ReadModifyWriteEnd"
    /\ log = <<CommandCall(<<224>>), CommandCall(<<238>>)>>

\* C6: on the same script the blocking and the async send produce identical
\* sink logs and identical results; the async send is suspended only with the
\* complete buffer of its command already handed to the sink in one call, and
\* once resumed it returns the sink's outcome.
C6_BlockingAsyncAgree ==
    /\ \A i \in 1..Min(Len(log), Len(alog)) : alog[i] = log[i]
    /\ \A i \in 1..Min(Len(results), Len(aresults)) : aresults[i] = results[i]
    /\ Len(alog) = Len(aresults) + (IF apc = "awaiting" THEN 1 ELSE 0)
    /\ apc = "awaiting" =>
          /\ alog[Len(alog)].data = Table(script[Len(alog)].cmd)
          /\ inflight = script[Len(alog)].outcome
    /\ \A i \in 1..Len(aresults) : aresults[i] = script[i].outcome

\* both instances have sent the two-byte ColStart against a failing sink
C6_Witness ==
    /\ apc = "idle"
    /\ Len(results) = 1
    /\ Len(aresults) = 1
    /\ script[1].cmd.tag = "ColStart"
    /\ Len(log[1].data) = 2
    /\ alog = log
    /\ aresults = results
    /\ results = <<"Err(DCError)">>

\* C7: a send returns exactly what the sink reported, and makes one sink call
\* whether the sink succeeded or failed: no retry, no second write, no error
\* turned into Ok.
C7_ErrorPropagated ==
    /\ Len(log) = Len(results)
    /\ \A i \in 1..Len(results) : results[i] = script[i].outcome

\* a two-byte command has failed at the sink and the caller got that error
C7_Witness ==
    /\ Len(results) = 1
    /\ script[1].cmd.tag = "Contrast"
    /\ script[1].outcome = "Err(BusWriteError)"
    /\ results = <<"Err(BusWriteError)">>
    /\ Len(log) = 1

\* C3: for every row in 0..63, Page::from(row) is the Page whose ordinal is
\* row / 8, and PageStart of it emits the single byte 0xB0 | (row / 8).
C3_PageFromRow ==
    (page # "unset" /\ row <= 63) =>
        /\ page \in DOMAIN Page
        /\ Page[page] = row \div 8
        /\ Len(log) = 1 => log = <<CommandCall(<<176 + (row \div 8)>>)>>

\* row 37 has been converted to Page4 and PageStart emitted [0xB4]
C3_Witness ==
    /\ row = 37
    /\ page = "Page4"
    /\ log = <<CommandCall(<<180>>)>>

\* C10: over the whole u8 domain Page::from panics exactly when val >= 64,
\* and whenever it returns, the Page's ordinal is val / 8: no out-of-range row
\* is wrapped or clamped to a valid page.
C10_PageFromTotality ==
    page # "unset" =>
        /\ page = "panic" <=> row >= 64
        /\ page # "panic" => (page \in DOMAIN Page /\ Page[page] = row \div 8)

\* row 64 has been converted and reached the unreachable!() arm
C10_Witness ==
    /\ row = 64
    /\ page = "panic"

\* C8: Builder::new() holds 128x64; with_size(g) returns a Builder whose
\* geometry is g and leaves the receiver as it was; after any chain of
\* with_size calls the geometry is the last argument, so
\* new().with_size(X).with_size(Y) equals new().with_size(Y).
C8_LastSizeWins ==
    /\ \A i \in 1..Len(builders) :
          builders[i].display_size =
             IF origin[i] = <<>> THEN "Display128x64" ELSE origin[i][Len(origin[i])]
    /\ \A i, j \in 1..Len(builders) :
          (/\ origin[i] # <<>>
           /\ origin[j] # <<>>
           /\ origin[i][Len(origin[i])] = origin[j][Len(origin[j])])
          => builders[i] = builders[j]

\* new().with_size(X).with_size(Y) and new().with_size(Y) both exist, X # Y,
\* next to the untouched receivers
C8_Witness ==
    /\ Len(builders) = 4
    /\ origin = << <<>>, <<"Display72x40">>, <<"Display72x40", "Display132x64">>,
                   <<"Display132x64">> >>
    /\ builders[1].display_size = "Display128x64"
    /\ builders[2].display_size = "Display72x40"
    /\ builders[3] = builders[4]
    /\ builders[3].display_size = "Display132x64"

====
